---- MODULE Spec2Model ----
(***************************************************************************)
(* A model of single_file: the path filter (FileCollector.                 *)
(* should_include_path), the per-file analysis with its cache and          *)
(* statistics (CodebaseAnalyzer.analyze_file, _update_stats) and the       *)
(* format resolution (CodebaseAnalyzer.generate_outputs, main).            *)
(*                                                                         *)
(* File names, formats strings and regular expressions are finite          *)
(* sequences of tokens: "." and "," and " " are tokens of their own, every *)
(* other token is a run of characters holding none of them. The string     *)
(* operations of the code (strip, lower, split, Path.suffix,               *)
(* Path.with_suffix, re.search) are defined on these sequences.            *)
(***************************************************************************)
EXTENDS Integers, Sequences, FiniteSets, TLC

VARIABLES
    DEFAULT_IGNORE_PATTERNS, \* utils.DEFAULT_IGNORE_PATTERNS, shared by every FileCollector
    args,                    \* the BaseArguments of the current analyzer
    sip,                     \* the last should_include_path call and what it returned
    file_info_cache,         \* CodebaseAnalyzer.file_info_cache
    stats,                   \* CodebaseAnalyzer.stats
    meta_calls,              \* how often get_file_metadata ran, per file
    call,                    \* the last analyze_file call and what it returned
    fs,                      \* the files on disk: id -> name, bytes, mtime, readable
    walk,                    \* gather_all_files: the root at hand and the collect_files frames
    plugins,                 \* CodebaseAnalyzer.plugins, in dict order
    pc,                      \* where the run of main() stands
    requested_formats,       \* generate_outputs: the formats still to render
    invoked,                 \* the generate_output calls made, in order
    skipped,                 \* the requested names that were not in the registry
    exit_status              \* what main() returned, -1 while it runs

vars == <<DEFAULT_IGNORE_PATTERNS, args, sip, file_info_cache, stats, meta_calls,
          call, fs, walk, plugins, pc, requested_formats, invoked, skipped, exit_status>>

filterVars == <<DEFAULT_IGNORE_PATTERNS, sip>>
analyzerVars == <<file_info_cache, stats, meta_calls, call>>
gatherVars == <<fs, walk>>
outputVars == <<plugins, pc, requested_formats, invoked, skipped, exit_status>>

----------------------------------------------------------------------------
(* Bounds *)

\* The user patterns that may pile up on one shared pattern list.
MaxLeaked == 2

\* The runs of get_file_metadata in one run of the analyzer.
MaxAnalyses == 4

\* The entries of a formats string.
MaxFormats == 2

----------------------------------------------------------------------------
(* Sequences *)

Last(s) == s[Len(s)]

EndsWith(s, t) ==
    /\ Len(t) <= Len(s)
    /\ SubSeq(s, Len(s) - Len(t) + 1, Len(s)) = t

Count(s, x) == Cardinality({i \in DOMAIN s : s[i] = x})

\* The sequences over S of length at most n.
SeqsUpTo(S, n) == UNION {[1..k -> S] : k \in 0..n}

----------------------------------------------------------------------------
(* Regular expressions: re.search(pattern, name) *)

\* A pattern is one of the shapes the built-in lists and the tests use:
\*   exact   ^lit$          suffix   lit$ and .*lit$
\*   dotname ^\.[^/]*$      any      .*
\*   bad     a pattern re.compile rejects (re.error), such as "["
Pat(kind, lit) == [kind |-> kind, lit |-> lit]

IsMalformed(pattern) == pattern.kind = "bad"

\* re.search on a pattern that compiles.
ReSearch(pattern, name) ==
    CASE pattern.kind = "exact" -> name = pattern.lit
      [] pattern.kind = "suffix" -> EndsWith(name, pattern.lit)
      [] pattern.kind = "dotname" ->
            /\ Len(name) >= 1
            /\ name[1] = "."
            /\ \A i \in DOMAIN name : name[i] # "/"
      [] pattern.kind = "any" -> TRUE
      [] OTHER -> FALSE

\* utils.DEFAULT_IGNORE_PATTERNS as the module defines it.
BuiltinDirectories ==
    << Pat("exact", <<".", "git">>),
       Pat("exact", <<".", "svn">>),
       Pat("exact", <<".", "hg">>),
       Pat("exact", <<"__pycache__">>),
       Pat("exact", <<".", "pytest_cache">>),
       Pat("exact", <<"node_modules">>),
       Pat("dotname", <<>>) >>

BuiltinFiles ==
    << Pat("suffix", <<".", "pyc">>),
       Pat("suffix", <<".", "pyo">>),
       Pat("suffix", <<".", "pyd">>),
       Pat("suffix", <<"~">>),
       Pat("suffix", <<".", "DS_Store">>),
       Pat("suffix", <<"Thumbs", ".", "db">>) >>

InitialIgnorePatterns == [directories |-> BuiltinDirectories, files |-> BuiltinFiles]

----------------------------------------------------------------------------
(* pathlib: the suffix of a file name *)

\* The index of the last "." of name, 0 when it has none (str.rfind, 1-based).
RFindDot(name) ==
    LET dots == {i \in DOMAIN name : name[i] = "."}
    IN IF dots = {} THEN 0 ELSE CHOOSE i \in dots : \A j \in dots : j <= i

\* PurePath.suffix: from the last dot on, unless the dot leads or ends the name.
Suffix(name) ==
    LET i == RFindDot(name)
    IN IF 1 < i /\ i < Len(name) THEN SubSeq(name, i, Len(name)) ELSE <<>>

\* path_item.suffix[1:] if path_item.suffix else "": the suffix without its dot,
\* <<>> (the empty string) when there is none. The case of the letters is kept.
ExtStr(name) ==
    LET s == Suffix(name)
    IN IF s = <<>> THEN <<>> ELSE SubSeq(s, 2, Len(s))

----------------------------------------------------------------------------
(* BaseArguments *)

\* BaseArguments.__init__: the defaults (None and [] are both falsy: <<>>).
\* The path output_file is held as its final component, output_file, and
\* the directory it lies in, output_dir: "cwd", outside every scanned tree,
\* unless the caller names a directory of the tree.
BaseArguments ==
    [ output_file |-> <<"output">>,
      output_dir |-> "cwd",
      formats |-> <<"default">>,
      ignore_errors |-> FALSE,
      exclude_dirs |-> <<>>,
      exclude_files |-> <<>>,
      include_dirs |-> <<>>,
      include_files |-> <<>>,
      extensions |-> <<>>,
      exclude_extensions |-> <<>>,
      metadata_add |-> {},
      metadata_remove |-> {},
      paths |-> <<>>,
      depth |-> 0,
      force_binary_content |-> FALSE ]

----------------------------------------------------------------------------
(* FileCollector.should_include_path *)

\* The exclusion loop: TRUE when some pattern from index i on matches the name.
\* A pattern that does not compile raises re.error, which the loop catches.
RECURSIVE DenyScan(_, _, _)
DenyScan(patterns, name, i) ==
    IF i > Len(patterns) THEN FALSE
    ELSE IF IsMalformed(patterns[i]) THEN DenyScan(patterns, name, i + 1)
    ELSE IF ReSearch(patterns[i], name) THEN TRUE
    ELSE DenyScan(patterns, name, i + 1)

\* The extension checks of a file.
ExtensionRejects(name, a) ==
    LET ext_str == ExtStr(name)
    IN \/ a.extensions # <<>> /\ \A i \in DOMAIN a.extensions : a.extensions[i] # ext_str
       \/ a.exclude_extensions # <<>>
            /\ \E i \in DOMAIN a.exclude_extensions : a.exclude_extensions[i] = ext_str

\* The include loops: re.search is not guarded there, so a pattern that does
\* not compile raises out of should_include_path.
RECURSIVE IncludeScan(_, _, _)
IncludeScan(patterns, name, i) ==
    IF i > Len(patterns) THEN "false"
    ELSE IF IsMalformed(patterns[i]) THEN "raise"
    ELSE IF ReSearch(patterns[i], name) THEN "true"
    ELSE IncludeScan(patterns, name, i + 1)

\* A plausible slip: the include list is consulted before the deny patterns.
IncludeFirstDecision(name, is_dir, a, patterns) ==
    LET include == IF is_dir THEN a.include_dirs ELSE a.include_files
    IN IF include # <<>> /\ IncludeScan(include, name, 1) = "true" THEN "true"
       ELSE IF DenyScan(patterns, name, 1) THEN "false"
       ELSE IF ~is_dir /\ ExtensionRejects(name, a) THEN "false"
       ELSE IF include # <<>> THEN IncludeScan(include, name, 1)
       ELSE "true"

\* What should_include_path returns ("true", "false") or that it raises, given
\* the pattern list it scans (the shared list, extended).
PathDecision(name, is_dir, a, patterns) ==
    IF DenyScan(patterns, name, 1) THEN "false"
    ELSE IF ~is_dir /\ ExtensionRejects(name, a) THEN "false"
    ELSE IF is_dir /\ a.include_dirs # <<>> THEN IncludeScan(a.include_dirs, name, 1)
    ELSE IF ~is_dir /\ a.include_files # <<>> THEN IncludeScan(a.include_files, name, 1)
    ELSE "true"

\* patterns = self.default_ignore_patterns[...]; patterns.extend(user excludes):
\* the list is the shared module-level list, extended in place.
ExtendedPatterns(shared, is_dir, a) ==
    IF is_dir THEN shared.directories \o a.exclude_dirs
    ELSE shared.files \o a.exclude_files

\* The last call of should_include_path: none yet.
NoCall == [name |-> <<>>, is_dir |-> FALSE, result |-> "none"]

\* FileCollector.should_include_path(path_item, is_dir), the whole call: the
\* shared list is extended in place, then scanned.
should_include_path(name, is_dir) ==
    LET patterns == ExtendedPatterns(DEFAULT_IGNORE_PATTERNS, is_dir, args)
        key == IF is_dir THEN "directories" ELSE "files"
    IN /\ DEFAULT_IGNORE_PATTERNS' = [DEFAULT_IGNORE_PATTERNS EXCEPT ![key] = patterns]
       /\ sip' = [name |-> name, is_dir |-> is_dir,
                  result |-> PathDecision(name, is_dir, args, patterns)]

\* should_include_path called on its own, while the shared list has room.
ShouldIncludePath(name, is_dir) ==
    LET patterns == ExtendedPatterns(DEFAULT_IGNORE_PATTERNS, is_dir, args)
        builtin == IF is_dir THEN BuiltinDirectories ELSE BuiltinFiles
    IN /\ Len(patterns) - Len(builtin) <= MaxLeaked
       /\ should_include_path(name, is_dir)
       /\ UNCHANGED <<args, analyzerVars, gatherVars, outputVars>>

\* CodebaseAnalyzer.__init__ / FileCollector.__init__ in the same process: a new
\* analyzer with its own arguments; the collector keeps a reference to the
\* module-level pattern lists, it does not copy them.
NewAnalyzer(a) ==
    /\ args' = a
    /\ sip' = NoCall
    /\ UNCHANGED <<DEFAULT_IGNORE_PATTERNS, analyzerVars, gatherVars, outputVars>>

----------------------------------------------------------------------------
(* The inputs of the path filter *)

PExactSrc == Pat("exact", <<"src">>)
PLog == Pat("suffix", <<".", "log">>)
PPy == Pat("suffix", <<".", "py">>)
PAny == Pat("any", <<>>)
PBad == Pat("bad", <<>>)

DirNames == { <<".", "git">>, <<"node_modules">>, <<".", "venv">>, <<"src">>, <<"lib">> }
FileNames == { <<"a", ".", "py">>, <<"A", ".", "PY">>, <<"m", ".", "pyc">>,
               <<"x", ".", "log">>, <<"notes">>, <<"t", ".", "py", "~">>,
               <<".", "DS_Store">> }

FilterArgs ==
    { [BaseArguments EXCEPT !.exclude_dirs = xd, !.exclude_files = xf,
                            !.include_dirs = id, !.include_files = if,
                            !.extensions = ex, !.exclude_extensions = xx] :
        xd \in {<<>>, <<PExactSrc>>},
        xf \in {<<>>, <<PLog>>, <<PBad, PLog>>},
        id \in {<<>>, <<PAny, PBad>>, <<PBad, PExactSrc>>},
        if \in {<<>>, <<PAny>>, <<PBad, PPy>>},
        ex \in {<<>>, << <<"py">> >>},
        xx \in {<<>>, << <<"log">> >>} }

----------------------------------------------------------------------------
(* The files of the scanned tree *)

\* n copies of the byte b.
Repeat(b, n) == [i \in 1..n |-> b]

\* The directories of the scanned tree: root/a/b, root/c and root/.git.
Directories ==
    [ root |-> [name |-> <<"root">>, parent |-> "none"],
      a |-> [name |-> <<"a">>, parent |-> "root"],
      b |-> [name |-> <<"b">>, parent |-> "a"],
      c |-> [name |-> <<"c">>, parent |-> "root"],
      git |-> [name |-> <<".", "git">>, parent |-> "root"] ]

\* The files on disk: the name, the directory, the bytes a read gives,
\* st_mtime, and whether open() succeeds. "gone" cannot be opened.
FileSystem ==
    [ f1 |-> [name |-> <<"a", ".", "py">>, parent |-> "a", bytes |-> Repeat(97, 10),
              modified |-> 3, readable |-> TRUE],
      f2 |-> [name |-> <<"A", ".", "PY">>, parent |-> "root", bytes |-> Repeat(98, 10),
              modified |-> 1, readable |-> TRUE],
      f3 |-> [name |-> <<"img", ".", "bin">>, parent |-> "b",
              bytes |-> <<137, 0, 97, 98, 99>>, modified |-> 2, readable |-> TRUE],
      gone |-> [name |-> <<"gone", ".", "txt">>, parent |-> "a", bytes |-> <<>>,
                modified |-> 0, readable |-> FALSE] ]

Files == DOMAIN FileSystem

\* A Path object: a file under one of its spellings, the resolved absolute one
\* ("abs") or a relative one ("rel"). Two Path objects are equal, and hash
\* alike, only when their spellings agree.
Paths == Files \X {"abs", "rel"}

\* Path.resolve()
Resolve(p) == <<p[1], "abs">>

----------------------------------------------------------------------------
(* FileCollector.get_file_metadata *)

\* A content that is one of the fixed strings of the code.
Literal(text) == <<"literal", text>>

BinaryPlaceholder == Literal("**binary data found: skipped**")

\* _is_binary reads this many bytes.
SampleSize == 1024

\* A plausible slip: the whole file is searched for a NUL byte.
is_binary_whole_file(bytes) == \E i \in DOMAIN bytes : bytes[i] = 0

\* _is_binary: b"\0" in file_handle.read(1024)
is_binary(bytes) ==
    \E i \in DOMAIN bytes : i <= SampleSize /\ bytes[i] = 0

\* One character of the base64 alphabet is its index 0..63; this is "=".
Base64Pad == 64

\* base64.b64encode: every three bytes give four characters, a last group of
\* one or two bytes is filled up with "=". Character j of the result.
b64encode(bytes) ==
    [j \in 1..(4 * ((Len(bytes) + 2) \div 3)) |->
        LET g == (j - 1) \div 4
            byte(k) == IF 3 * g + k <= Len(bytes) THEN bytes[3 * g + k] ELSE 0
            n == byte(1) * 65536 + byte(2) * 256 + byte(3)
            k == Len(bytes) - 3 * g
        IN CASE (j - 1) % 4 = 0 -> n \div 262144
             [] (j - 1) % 4 = 1 -> (n \div 4096) % 64
             [] (j - 1) % 4 = 2 -> IF k >= 2 THEN (n \div 64) % 64 ELSE Base64Pad
             [] OTHER -> IF k >= 3 THEN n % 64 ELSE Base64Pad]

\* read_file_with_encoding_gymnastics: the text of the file. A file of ASCII
\* bytes decodes as utf-8, any other falls through to iso-8859-1; either way
\* the code points are the byte values.
Text(bytes) == <<"text", bytes>>

\* len(text_content.splitlines()) of a text without line breaks.
LineCount(bytes) == IF bytes = <<>> THEN 0 ELSE 1

\* The record of a readable file, under the arguments a.
get_file_metadata(p, a) ==
    LET f == fs[p[1]]
        is_bin == is_binary(f.bytes)
        base == [ path |-> Resolve(p),
                  size |-> Len(f.bytes),
                  modified |-> f.modified,
                  extension |-> ExtStr(f.name),
                  is_binary |-> is_bin ]
    IN IF is_bin
       THEN [k \in DOMAIN base \cup {"content"} |->
                IF k = "content"
                THEN IF a.force_binary_content
                     THEN <<"base64", b64encode(f.bytes)>>
                     ELSE BinaryPlaceholder
                ELSE base[k]]
       ELSE [k \in DOMAIN base \cup {"content", "line_count"} |->
                IF k = "content" THEN Text(f.bytes)
                ELSE IF k = "line_count" THEN LineCount(f.bytes)
                ELSE base[k]]

\* The read of the file raises.
MetadataRaises(p) == ~fs[p[1]].readable

----------------------------------------------------------------------------
(* CodebaseAnalyzer._update_stats *)

\* Both top lists are cut to this length.
TopN == 10

\* list.sort(key=lambda x: x[1], reverse=True): stable, descending by the
\* second component. Insert x behind every entry whose key is not smaller.
RECURSIVE InsertDescending(_, _)
InsertDescending(sorted, x) ==
    IF sorted = <<>> THEN <<x>>
    ELSE IF sorted[1][2] >= x[2] THEN <<sorted[1]>> \o InsertDescending(Tail(sorted), x)
    ELSE <<x>> \o sorted

RECURSIVE SortDescending(_)
SortDescending(list) ==
    IF list = <<>> THEN <<>>
    ELSE InsertDescending(SortDescending(SubSeq(list, 1, Len(list) - 1)), Last(list))

\* list[:n]
Truncate(list, n) == SubSeq(list, 1, IF Len(list) < n THEN Len(list) ELSE n)

EmptyStats ==
    [ total_files |-> 0, total_size |-> 0, extensions |-> {},
      largest_files |-> <<>>, recently_modified |-> <<>> ]

\* The histogram with the bucket of ext raised by one. The histogram is a set
\* of <<extension, count>> pairs, one per extension.
Bump(extensions, ext) ==
    LET old == {e \in extensions : e[1] = ext}
        n == IF old = {} THEN 0 ELSE (CHOOSE e \in old : TRUE)[2]
    IN (extensions \ old) \cup {<<ext, n + 1>>}

\* A plausible slip: the lists are appended to and neither sorted nor cut.
update_stats_unsorted(st, file_info) ==
    [ total_files |-> st.total_files + 1,
      total_size |-> st.total_size + file_info.size,
      extensions |-> Bump(st.extensions, file_info.extension),
      largest_files |-> Append(st.largest_files, <<file_info.path, file_info.size>>),
      recently_modified |->
          Append(st.recently_modified, <<file_info.path, file_info.modified>>) ]

\* _update_stats(file_info): the statistics after one more file.
update_stats(st, file_info) ==
    [ total_files |-> st.total_files + 1,
      total_size |-> st.total_size + file_info.size,
      extensions |-> Bump(st.extensions, file_info.extension),
      largest_files |->
          Truncate(SortDescending(
              Append(st.largest_files, <<file_info.path, file_info.size>>)), TopN),
      recently_modified |->
          Truncate(SortDescending(
              Append(st.recently_modified, <<file_info.path, file_info.modified>>)), TopN) ]

----------------------------------------------------------------------------
(* The metadata configuration and the metadata plugins *)

\* core.BUILTIN_METADATA, key -> default: the base fields of a record.
BUILTIN_METADATA ==
    [filepath |-> TRUE, size |-> TRUE, modified |-> TRUE, extension |-> TRUE]

\* The metadata plugins by metadata_name, with the default each declares
\* (getattr(plugin, "default", False)).
metadata_plugins ==
    [binary_content |-> FALSE, filesize_human_readable |-> FALSE, md5 |-> FALSE]

\* build_dynamic_metadata_config: the built-in keys and one key per plugin.
metadata_config ==
    [k \in DOMAIN BUILTIN_METADATA \cup DOMAIN metadata_plugins |->
        IF k \in DOMAIN metadata_plugins THEN metadata_plugins[k] ELSE BUILTIN_METADATA[k]]

\* A plausible slip: the additions are applied first and the removals last.
AllowedRemovalsLast(a) ==
    ({k \in DOMAIN metadata_config : metadata_config[k]} \cup a.metadata_add)
        \ a.metadata_remove

\* The keys a run keeps: the defaults, minus metadata_remove, plus metadata_add.
Allowed(a) ==
    ({k \in DOMAIN metadata_config : metadata_config[k]} \ a.metadata_remove)
        \cup a.metadata_add

\* d[k] = v on a dict
Put(d, k, v) == [x \in DOMAIN d \cup {k} |-> IF x = k THEN v ELSE d[x]]

\* {k: v for k, v in metadata.items() if k not in metadata_config or k in allowed}
Filtered(metadata, allowed) ==
    LET keep == {k \in DOMAIN metadata : k \notin DOMAIN metadata_config \/ k \in allowed}
    IN [k \in keep |-> metadata[k]]

\* A plausible slip: every discovered plugin is run, allowed or not.
FiresAlways(plugin_name, allowed) == TRUE

\* if plugin_name in allowed: plugin_cls(analyzer=self).attach_metadata(filtered).
\* The construction of the plugin is taken to succeed.
Fires(plugin_name, allowed) == plugin_name \in allowed

\* The plugins whose attach_metadata the loop of analyze_file calls.
Attached(a) == {k \in DOMAIN metadata_plugins : Fires(k, Allowed(a))}

\* SizeHumanReadablePlugin.attach_metadata calls OutputPlugin.filesize_human_readable,
\* which core.OutputPlugin does not define: AttributeError once "size" is there.
SizePluginRaises(file_info, allowed) ==
    Fires("filesize_human_readable", allowed) /\ "size" \in DOMAIN file_info

\* BinaryContentPlugin.attach_metadata: the placeholder becomes the base64 text.
AttachBinaryContent(file_info, allowed) ==
    IF /\ Fires("binary_content", allowed)
       /\ "content" \in DOMAIN file_info
       /\ file_info["content"] = BinaryPlaceholder
       /\ "path" \in DOMAIN file_info
    THEN Put(file_info, "content", <<"base64", b64encode(fs[file_info["path"][1]].bytes)>>)
    ELSE file_info

\* MD5MetadataPlugin.attach_metadata
AttachMd5(file_info, allowed) ==
    IF Fires("md5", allowed) /\ "path" \in DOMAIN file_info /\ "md5" \notin DOMAIN file_info
    THEN Put(file_info, "md5", <<"md5 of", file_info["path"][1]>>)
    ELSE file_info

----------------------------------------------------------------------------
(* CodebaseAnalyzer.analyze_file *)

\* The empty dict analyze_file returns for a file it could not analyse.
EmptyRecord == [k \in {} |-> TRUE]

NoAnalysis == [path |-> <<"none", "abs">>, outcome |-> "none", ret |-> EmptyRecord,
               cached |-> FALSE, attached |-> {}]

\* A plausible slip: the error is re-raised whatever ignore_errors says.
FailureAlwaysRaises(p, a) ==
    [path |-> p, outcome |-> "raise", ret |-> EmptyRecord, cached |-> FALSE,
     attached |-> {}]

\* except Exception: re-raised in strict mode, else {} is returned.
Failure(p, a) ==
    [path |-> p, outcome |-> IF a.ignore_errors THEN "return" ELSE "raise",
     ret |-> EmptyRecord, cached |-> FALSE, attached |-> {}]

\* A plausible slip: the cache is never consulted.
NeverCached(cache, file_path) == FALSE

\* if file_path in self.file_info_cache
CacheHit(cache, file_path) == file_path \in DOMAIN cache

\* The record analyze_file builds from the metadata of a file.
BuildRecord(metadata, a) ==
    LET allowed == Allowed(a)
        typed == IF "type" \in allowed THEN Put(metadata, "type", "file") ELSE metadata
        filtered == Filtered(typed, allowed)
    IN AttachMd5(AttachBinaryContent(filtered, allowed), allowed)

\* Some metadata plugin raises while the record is built.
BuildRaises(metadata, a) ==
    LET allowed == Allowed(a)
        typed == IF "type" \in allowed THEN Put(metadata, "type", "file") ELSE metadata
    IN SizePluginRaises(Filtered(typed, allowed), allowed)

TotalMetaCalls == LET RECURSIVE Sum(_)
                      Sum(S) == IF S = {} THEN 0
                                ELSE LET f == CHOOSE f \in S : TRUE
                                     IN meta_calls[f] + Sum(S \ {f})
                  IN Sum(DOMAIN fs)

\* analyze_file(file_path), the whole call.
analyze_file(p) ==
    IF CacheHit(file_info_cache, p)
    THEN /\ call' = [path |-> p, outcome |-> "return", ret |-> file_info_cache[p],
                     cached |-> TRUE, attached |-> {}]
         /\ UNCHANGED <<file_info_cache, stats, meta_calls>>
    ELSE /\ meta_calls' = [meta_calls EXCEPT ![p[1]] = @ + 1]
         /\ IF MetadataRaises(p)
            THEN /\ call' = Failure(p, args)
                 /\ UNCHANGED <<file_info_cache, stats>>
            ELSE LET metadata == get_file_metadata(p, args)
                 IN /\ stats' = update_stats(stats, metadata)
                    /\ IF BuildRaises(metadata, args)
                       THEN /\ \E before \in SUBSET (Attached(args)
                                                         \ {"filesize_human_readable"}) :
                                  call' = [Failure(p, args) EXCEPT
                                              !.attached = before
                                                  \cup {"filesize_human_readable"}]
                            /\ UNCHANGED file_info_cache
                       ELSE LET filtered == BuildRecord(metadata, args)
                            IN /\ file_info_cache' = Put(file_info_cache, p, filtered)
                               /\ call' = [path |-> p, outcome |-> "return",
                                           ret |-> filtered, cached |-> FALSE,
                                           attached |-> Attached(args)]

\* analyze_file called on its own, by a plugin or a test; at most MaxAnalyses
\* calls get past the cache.
AnalyzeFile(p) ==
    /\ CacheHit(file_info_cache, p) \/ TotalMetaCalls < MaxAnalyses
    /\ analyze_file(p)
    /\ UNCHANGED <<args, filterVars, gatherVars, outputVars>>

----------------------------------------------------------------------------
(* str.lower, str.strip, str.split on token sequences *)

\* str.lower on one token.
LowerToken(t) ==
    CASE t = "JSON" -> "json"
      [] t = "TXT" -> "txt"
      [] t = "Default" -> "default"
      [] t = "PY" -> "py"
      [] OTHER -> t

\* str.lower
Lower(s) == [i \in DOMAIN s |-> LowerToken(s[i])]

RECURSIVE LStrip(_)
LStrip(s) == IF s # <<>> /\ s[1] = " " THEN LStrip(Tail(s)) ELSE s

RECURSIVE RStrip(_)
RStrip(s) == IF s # <<>> /\ Last(s) = " " THEN RStrip(SubSeq(s, 1, Len(s) - 1)) ELSE s

\* str.strip
Strip(s) == LStrip(RStrip(s))

\* str.split(","): the pieces between the commas, empty pieces included.
RECURSIVE SplitComma(_)
SplitComma(s) ==
    LET commas == {i \in DOMAIN s : s[i] = ","}
    IN IF commas = {} THEN <<s>>
       ELSE LET i == CHOOSE i \in commas : \A j \in commas : i <= j
            IN <<SubSeq(s, 1, i - 1)>> \o SplitComma(SubSeq(s, i + 1, Len(s)))

\* [fmt.strip() for fmt in pieces if fmt.strip()]
RECURSIVE StripAll(_)
StripAll(pieces) ==
    IF pieces = <<>> THEN <<>>
    ELSE LET fmt == Strip(pieces[1])
         IN (IF fmt = <<>> THEN <<>> ELSE <<fmt>>) \o StripAll(Tail(pieces))

----------------------------------------------------------------------------
(* pathlib: Path.with_suffix *)

\* PurePath.with_suffix(suffix) on the final component: the suffix replaces the
\* one the name has, or is appended when it has none; "" removes it.
WithSuffix(name, suffix) ==
    LET old == Suffix(name)
    IN IF old = <<>> THEN name \o suffix
       ELSE SubSeq(name, 1, Len(name) - Len(old)) \o suffix

----------------------------------------------------------------------------
(* CodebaseAnalyzer.generate_outputs and main *)

\* formats_arg = (self.args.formats or "").strip().lower()
FormatsArg(a) == Lower(Strip(a.formats))

\* if not formats_arg or formats_arg == "default"
DefaultBranch(a) == FormatsArg(a) = <<>> \/ FormatsArg(a) = <<"default">>

\* requested_formats = [fmt.strip() for fmt in formats_arg.split(",") if fmt.strip()]
RequestedFormats(a) == StripAll(SplitComma(FormatsArg(a)))

\* format_name in self.plugins
Registered(registry, format_name) ==
    \E i \in DOMAIN registry : registry[i].format_name = format_name

\* self.plugins[format_name]
PluginFor(registry, format_name) ==
    registry[CHOOSE i \in DOMAIN registry : registry[i].format_name = format_name]

\* chosen_extension in plugin.supported_extensions
Declares(plugin, extension) ==
    \E i \in DOMAIN plugin.supported_extensions : plugin.supported_extensions[i] = extension

\* The first plugin, in dict order, that declares the extension; 0 when the
\* for loop runs into its else branch.
FirstDeclaring(registry, extension) ==
    LET hits == {i \in DOMAIN registry : Declares(registry[i], extension)}
    IN IF hits = {} THEN 0 ELSE CHOOSE i \in hits : \A j \in hits : i <= j

\* base_name = output_path.with_suffix(""); base_name.with_suffix(ext) with
\* ext = plugin_cls.supported_extensions[0]
TargetPath(output_file, plugin) ==
    WithSuffix(WithSuffix(output_file, <<>>), plugin.supported_extensions[1])

\* One generate_output call.
Invocation(format_name, path, raised) ==
    [format |-> format_name, path |-> path, raised |-> raised]

\* del analyzer.plugins[name]: the caller disables a plugin before the run.
DisablePlugin(i) ==
    /\ pc = "main"
    /\ i \in DOMAIN plugins
    /\ plugins' = SubSeq(plugins, 1, i - 1) \o SubSeq(plugins, i + 1, Len(plugins))
    /\ UNCHANGED <<args, pc, requested_formats, invoked, skipped, exit_status,
                   filterVars, analyzerVars, gatherVars>>

\* generate_outputs, first statement: gather_all_files(). In strict mode the
\* error of a file that cannot be analysed leaves generate_outputs here.
GatherAllFiles(fails) ==
    /\ pc = "main"
    /\ fails => ~args.ignore_errors
    /\ pc' = IF fails THEN "raised" ELSE "gathered"
    /\ UNCHANGED <<args, plugins, requested_formats, invoked, skipped, exit_status,
                   filterVars, analyzerVars, gatherVars>>

\* The branch for no formats or "default": the first plugin that declares the
\* suffix of the output path renders to the output path; any error, the
\* ValueError of the else branch included, is logged, and the method returns.
RenderByExtension(raised) ==
    /\ pc = "gathered"
    /\ DefaultBranch(args)
    /\ LET chosen_extension == Lower(Suffix(args.output_file))
           i == FirstDeclaring(plugins, chosen_extension)
       IN IF i = 0
          THEN /\ ~raised
               /\ UNCHANGED invoked
          ELSE invoked' = Append(invoked,
                   Invocation(plugins[i].format_name, args.output_file, raised))
    /\ pc' = "returned"
    /\ UNCHANGED <<args, plugins, requested_formats, skipped, exit_status,
                   filterVars, analyzerVars, gatherVars>>

\* The explicit branch up to the loop: the list of requested formats.
SplitFormats ==
    /\ pc = "gathered"
    /\ ~DefaultBranch(args)
    /\ requested_formats' = RequestedFormats(args)
    /\ pc' = "loop"
    /\ UNCHANGED <<args, plugins, invoked, skipped, exit_status, filterVars, analyzerVars, gatherVars>>

\* The position of the for loop over requested_formats.
LoopIndex == Len(invoked) + Len(skipped) + 1

\* A plausible slip: break instead of continue, an unknown name ends the loop.
LoopStopsAtUnknown ==
    /\ LoopIndex <= Len(requested_formats)
    /\ skipped = <<>>

\* A plausible slip: no try around the plugin call, the first error ends the loop.
LoopAbortsOnError ==
    /\ LoopIndex <= Len(requested_formats)
    /\ \A i \in DOMAIN invoked : ~invoked[i].raised

\* The for loop has another format to look at.
LoopContinues == LoopIndex <= Len(requested_formats)

\* One iteration of the loop: a name that is not registered is logged and
\* skipped; a registered one renders to its target path, and an error of the
\* plugin is logged.
RenderRequested(raised) ==
    /\ pc = "loop"
    /\ LoopContinues
    /\ LET format_name == requested_formats[LoopIndex]
       IN IF ~Registered(plugins, format_name)
          THEN /\ ~raised
               /\ skipped' = Append(skipped, format_name)
               /\ UNCHANGED invoked
          ELSE /\ invoked' = Append(invoked,
                      Invocation(format_name,
                                 TargetPath(args.output_file, PluginFor(plugins, format_name)),
                                 raised))
               /\ UNCHANGED skipped
    /\ UNCHANGED <<args, plugins, pc, requested_formats, exit_status,
                   filterVars, analyzerVars, gatherVars>>

\* The loop is over: generate_outputs returns.
LoopEnds ==
    /\ pc = "loop"
    /\ ~LoopContinues
    /\ pc' = "returned"
    /\ UNCHANGED <<args, plugins, requested_formats, invoked, skipped, exit_status,
                   filterVars, analyzerVars, gatherVars>>

\* main: return 0 after generate_outputs returned, 1 after it raised.
MainReturns ==
    /\ pc \in {"returned", "raised"}
    /\ exit_status' = IF pc = "raised" THEN 1 ELSE 0
    /\ pc' = "done"
    /\ UNCHANGED <<args, plugins, requested_formats, invoked, skipped,
                   filterVars, analyzerVars, gatherVars>>

----------------------------------------------------------------------------
(* FileCollector.collect_files and CodebaseAnalyzer.gather_all_files *)

\* Every name of the tree in the order sorted() gives Path objects of one
\* directory: by the code points of the name, capitals before small letters.
NameOrder ==
    << <<".", "git">>, <<"A", ".", "PY">>, <<"a">>, <<"a", ".", "py">>, <<"b">>,
       <<"c">>, <<"config">>, <<"gone", ".", "txt">>, <<"img", ".", "bin">>, <<"old", ".", "pyc">>,
       <<"out", ".", "json">>, <<"out", ".", "txt">> >>

\* A plausible slip: sorted(..., reverse=True).
RankDescending(name) == 0 - (CHOOSE i \in DOMAIN NameOrder : NameOrder[i] = name)

Rank(name) == CHOOSE i \in DOMAIN NameOrder : NameOrder[i] = name

\* One entry of a directory.
Entry(kind, id) == [kind |-> kind, id |-> id]

EntryName(e) == IF e.kind = "dir" THEN Directories[e.id].name ELSE fs[e.id].name

\* start_path.iterdir()
IterDir(d) ==
    {Entry("dir", x) : x \in {y \in DOMAIN Directories : Directories[y].parent = d}}
        \cup {Entry("file", f) : f \in {g \in DOMAIN fs : fs[g].parent = d}}

\* sorted(entries)
RECURSIVE Sorted(_)
Sorted(entries) ==
    IF entries = {} THEN <<>>
    ELSE LET first == CHOOSE e \in entries :
                          \A o \in entries : Rank(EntryName(e)) <= Rank(EntryName(o))
         IN <<first>> \o Sorted(entries \ {first})

\* A plausible slip: the subdirectories of a directory are not walked.
FrameWithoutSubdirectories(dir, current_depth) ==
    [dir |-> dir, depth |-> current_depth, phase |-> "files", i |-> 1]

\* One activation of the generator collect_files(start_path, current_depth):
\* "enter" before its depth check, "dirs" in its first loop over the entries
\* and "files" in its second, i the entry the loop is at.
Frame(dir, current_depth) == [dir |-> dir, depth |-> current_depth, phase |-> "enter", i |-> 1]

\* The innermost activation of collect_files and those that wait for it.
Top == walk.frames[Len(walk.frames)]
Waiting == SubSeq(walk.frames, 1, Len(walk.frames) - 1)

\* The walk with the innermost activation replaced, or ended.
WithTop(frame) == [walk EXCEPT !.frames = Append(Waiting, frame)]
Popped == [walk EXCEPT !.frames = Waiting]

\* generate_outputs calls gather_all_files.
GatherBegins ==
    /\ pc = "main"
    /\ pc' = "gather"
    /\ walk' = [root |-> 1, frames |-> <<>>, yielded |-> <<>>]
    /\ UNCHANGED <<args, fs, plugins, requested_formats, invoked, skipped, exit_status,
                   filterVars, analyzerVars>>

\* A plausible slip: a file given as input path has to pass the filter too.
RootFileFiltered(name, a) ==
    PathDecision(name, FALSE, a, ExtendedPatterns(InitialIgnorePatterns, FALSE, a)) = "true"

\* elif p_obj.is_file(): self.analyze_file(p_obj), whatever the filters say.
RootFileAnalysed(name, a) == TRUE

\* gather_all_files, one input path: a directory starts collect_files, a file
\* is analysed as it is, a path that does not exist is passed over. An error
\* of analyze_file leaves gather_all_files and generate_outputs.
GatherRoot ==
    /\ pc = "gather"
    /\ walk.frames = <<>>
    /\ walk.root <= Len(args.paths)
    /\ LET p_obj == args.paths[walk.root]
       IN IF p_obj.kind = "file"
          THEN /\ IF RootFileAnalysed(fs[p_obj.id].name, args)
                  THEN /\ analyze_file(<<p_obj.id, "abs">>)
                       /\ pc' = IF call'.outcome = "raise" THEN "raised" ELSE pc
                  ELSE UNCHANGED <<pc, analyzerVars>>
               /\ walk' = [walk EXCEPT !.root = @ + 1]
          ELSE /\ walk' = [walk EXCEPT !.root = @ + 1,
                                       !.frames = IF p_obj.kind = "dir"
                                                  THEN <<Frame(p_obj.id, 0)>> ELSE <<>>]
               /\ UNCHANGED <<pc, analyzerVars>>
    /\ UNCHANGED <<args, fs, plugins, requested_formats, invoked, skipped, exit_status,
                   filterVars>>

\* collect_files runs for gather_all_files or, later, for an output plugin.
Walking == pc \in {"gather", "render"}

\* Where an exception that leaves the walk arrives: gather_all_files lets it
\* leave generate_outputs, a plugin lets it leave generate_output.
Escaped == IF pc = "gather" THEN "raised" ELSE "plugin_raised"

\* A plausible slip: the depth check is left out.
NeverBeyondDepth(current_depth, a) == FALSE

\* if self.args.depth > 0 and current_depth >= self.args.depth: return
BeyondDepth(current_depth, a) == a.depth > 0 /\ current_depth >= a.depth

\* collect_files of a directory, up to its first loop.
CollectEnters ==
    /\ Walking
    /\ walk.frames # <<>>
    /\ Top.phase = "enter"
    /\ walk' = IF BeyondDepth(Top.depth, args) THEN Popped
               ELSE WithTop([Top EXCEPT !.phase = "dirs"])
    /\ UNCHANGED <<args, fs, filterVars, analyzerVars, outputVars>>

\* An exception inside collect_files: in strict mode every activation re-raises
\* it and it leaves gather_all_files; otherwise it is logged and the
\* activation it arose in ends.
CollectRaises ==
    IF args.ignore_errors
    THEN walk' = Popped /\ UNCHANGED pc
    ELSE walk' = [walk EXCEPT !.frames = <<>>] /\ pc' = Escaped

\* The first loop, one entry: a subdirectory the filter admits is walked at
\* once, one level deeper.
CollectDirectory ==
    /\ Walking
    /\ walk.frames # <<>>
    /\ Top.phase = "dirs"
    /\ LET entries == Sorted(IterDir(Top.dir))
       IN IF Top.i > Len(entries)
          THEN /\ walk' = WithTop([Top EXCEPT !.phase = "files", !.i = 1])
               /\ UNCHANGED <<pc, filterVars>>
          ELSE LET entry == entries[Top.i]
                   next == [Top EXCEPT !.i = @ + 1]
               IN IF entry.kind # "dir"
                  THEN /\ walk' = WithTop(next)
                       /\ UNCHANGED <<pc, filterVars>>
                  ELSE /\ should_include_path(EntryName(entry), TRUE)
                       /\ IF sip'.result = "raise" THEN CollectRaises
                          ELSE /\ walk' = IF sip'.result = "true"
                                          THEN [walk EXCEPT !.frames =
                                                   Append(Waiting, next)
                                                     \o <<Frame(entry.id, Top.depth + 1)>>]
                                          ELSE WithTop(next)
                               /\ UNCHANGED pc
    /\ UNCHANGED <<args, fs, analyzerVars, plugins, requested_formats, invoked, skipped,
                   exit_status>>

\* The second loop, one entry: a file the filter admits is yielded, and
\* gather_all_files analyses it before the generator goes on.
CollectFile ==
    /\ Walking
    /\ walk.frames # <<>>
    /\ Top.phase = "files"
    /\ LET entries == Sorted(IterDir(Top.dir))
       IN IF Top.i > Len(entries)
          THEN /\ walk' = Popped
               /\ UNCHANGED <<pc, filterVars, analyzerVars>>
          ELSE LET entry == entries[Top.i]
                   next == [Top EXCEPT !.i = @ + 1]
               IN IF entry.kind # "file"
                  THEN /\ walk' = WithTop(next)
                       /\ UNCHANGED <<pc, filterVars, analyzerVars>>
                  ELSE /\ should_include_path(EntryName(entry), FALSE)
                       /\ IF sip'.result = "raise"
                          THEN CollectRaises /\ UNCHANGED analyzerVars
                          ELSE IF sip'.result = "false"
                          THEN /\ walk' = WithTop(next)
                               /\ UNCHANGED <<pc, analyzerVars>>
                          ELSE /\ analyze_file(<<entry.id, "abs">>)
                               /\ pc' = IF call'.outcome = "raise" THEN Escaped ELSE pc
                               /\ walk' = [WithTop(next) EXCEPT
                                              !.yielded = Append(@, entry.id)]
    /\ UNCHANGED <<args, fs, plugins, requested_formats, invoked, skipped, exit_status>>

\* Every input path is done: gather_all_files returns.
GatherEnds ==
    /\ pc = "gather"
    /\ walk.frames = <<>>
    /\ walk.root > Len(args.paths)
    /\ pc' = "gathered"
    /\ UNCHANGED <<args, plugins, requested_formats, invoked, skipped, exit_status,
                   filterVars, analyzerVars, gatherVars>>

----------------------------------------------------------------------------
(* The state after construction *)

\* The module-level pattern lists as imported, no call made yet.
FilterInit ==
    /\ DEFAULT_IGNORE_PATTERNS = InitialIgnorePatterns
    /\ sip = NoCall

\* CodebaseAnalyzer.__init__: an empty cache and empty statistics.
AnalyzerInit ==
    /\ file_info_cache = EmptyRecord
    /\ stats = EmptyStats
    /\ meta_calls = [f \in DOMAIN fs |-> 0]
    /\ call = NoAnalysis

\* The walk of gather_all_files has not begun.
NoWalk == [root |-> 0, frames |-> <<>>, yielded |-> <<>>]

\* No output plugin registered and main() not started.
OutputInit ==
    /\ plugins = <<>>
    /\ pc = "idle"
    /\ requested_formats = <<>>
    /\ invoked = <<>>
    /\ skipped = <<>>
    /\ exit_status = -1

----------------------------------------------------------------------------
(* The path filter, called by any number of analyzers of one process *)

InitFilter ==
    /\ args \in FilterArgs
    /\ fs = FileSystem
    /\ walk = NoWalk
    /\ FilterInit
    /\ AnalyzerInit
    /\ OutputInit

NextFilter ==
    \/ \E a \in FilterArgs : NewAnalyzer(a)
    \/ \E name \in DirNames : ShouldIncludePath(name, TRUE)
    \/ \E name \in FileNames : ShouldIncludePath(name, FALSE)

SpecFilter == InitFilter /\ [][NextFilter]_vars

----------------------------------------------------------------------------
(* analyze_file, called on any path in any order *)

AnalyzeArgs ==
    { [BaseArguments EXCEPT !.ignore_errors = ie, !.metadata_add = add,
                            !.metadata_remove = rem] :
        ie \in BOOLEAN,
        add \in {{}, {"md5"}, {"filesize_human_readable"}, {"type", "binary_content"}},
        rem \in {{}, {"size"}, {"extension", "md5"}} }

InitAnalyze ==
    /\ args \in AnalyzeArgs
    /\ fs = FileSystem
    /\ walk = NoWalk
    /\ FilterInit
    /\ AnalyzerInit
    /\ OutputInit

NextAnalyze == \E p \in Paths : AnalyzeFile(p)

SpecAnalyze == InitAnalyze /\ [][NextAnalyze]_vars

----------------------------------------------------------------------------
(* Claims about the path filter *)

\* The name matches one of the built-in deny patterns of its category, as
\* utils.py lists them.
MatchesBuiltin(name, is_dir) ==
    LET builtin == IF is_dir THEN BuiltinDirectories ELSE BuiltinFiles
    IN \E i \in DOMAIN builtin : ReSearch(builtin[i], name)

\* The name matches a well-formed pattern of the list.
MatchesSome(patterns, name) ==
    \E i \in DOMAIN patterns : ~IsMalformed(patterns[i]) /\ ReSearch(patterns[i], name)

\* C2: an entry whose name matches a built-in deny pattern of its category is
\* rejected, whatever include lists and extension lists are configured.
C2_BuiltinDenyWins ==
    (sip.result # "none" /\ MatchesBuiltin(sip.name, sip.is_dir)) => sip.result = "false"

\* C2: a '.git' directory was tested under an include_dirs list that matches it.
C2_Witness ==
    /\ sip.is_dir
    /\ sip.name = <<".", "git">>
    /\ MatchesSome(args.include_dirs, sip.name)
    /\ sip.result = "false"

\* The five rejection rules of the filter, read off the configuration of the
\* analyzer that makes the call.
RuleRejects(name, is_dir, a) ==
    LET exclude == IF is_dir THEN a.exclude_dirs ELSE a.exclude_files
        include == IF is_dir THEN a.include_dirs ELSE a.include_files
        ext == ExtStr(name)
    IN \/ MatchesBuiltin(name, is_dir)
       \/ MatchesSome(exclude, name)
       \/ ~is_dir /\ a.extensions # <<>> /\ ext \notin {a.extensions[i] : i \in DOMAIN a.extensions}
       \/ ~is_dir /\ a.exclude_extensions # <<>>
            /\ ext \in {a.exclude_extensions[i] : i \in DOMAIN a.exclude_extensions}
       \/ include # <<>> /\ ~MatchesSome(include, name)

\* C3: should_include_path returns true exactly when none of the five rules
\* (built-in deny, user exclude, extension allow-list, extension deny-list,
\* include list) rejects the entry.
C3_TrueIffNoRuleRejects ==
    sip.result # "none" =>
        (sip.result = "true" <=> ~RuleRejects(sip.name, sip.is_dir, args))

----------------------------------------------------------------------------
(* Claims about analyze_file *)

----------------------------------------------------------------------------
(* One run of main() over a registry of output plugins *)

PluginDefault == [format_name |-> <<"default">>, supported_extensions |-> << <<".", "txt">> >>]
PluginJson == [format_name |-> <<"json">>, supported_extensions |-> << <<".", "json">> >>]
PluginJsonB ==
    [format_name |-> <<"jsonb">>,
     supported_extensions |-> << <<".", "json">>, <<".", "jsonb">> >>]

PluginClasses == {PluginDefault, PluginJson, PluginJsonB}

\* Every registry: some of the plugin classes, in any dict order.
Registries ==
    {r \in SeqsUpTo(PluginClasses, Cardinality(PluginClasses)) :
        \A i, j \in DOMAIN r : i # j => r[i] # r[j]}

\* One entry of a formats string.
FormatItems ==
    { <<>>, <<"default">>, <<"json">>, <<" ", "JSON", " ">>, <<"jsonb">>, <<"nope">> }

\* ",".join(items)
RECURSIVE Join(_)
Join(items) ==
    IF items = <<>> THEN <<>>
    ELSE IF Len(items) = 1 THEN items[1]
    ELSE items[1] \o <<",">> \o Join(Tail(items))

FormatsInputs == {Join(items) : items \in SeqsUpTo(FormatItems, MaxFormats)}

OutputFiles ==
    { <<"out">>, <<"out", ".", "txt">>, <<"out", ".", "JSON">>,
      <<"out", ".", "v1", ".", "txt">> }

OutputArgs ==
    { [BaseArguments EXCEPT !.ignore_errors = ie, !.formats = fmts, !.output_file = out] :
        ie \in BOOLEAN, fmts \in FormatsInputs, out \in OutputFiles }

InitOutputs ==
    /\ args \in OutputArgs
    /\ fs = FileSystem
    /\ walk = NoWalk
    /\ FilterInit
    /\ AnalyzerInit
    /\ plugins \in Registries
    /\ pc = "main"
    /\ requested_formats = <<>>
    /\ invoked = <<>>
    /\ skipped = <<>>
    /\ exit_status = -1

NextOutputs ==
    \/ \E i \in 1..Cardinality(PluginClasses) : DisablePlugin(i)
    \/ \E fails \in BOOLEAN : GatherAllFiles(fails)
    \/ \E raised \in BOOLEAN : RenderByExtension(raised)
    \/ SplitFormats
    \/ \E raised \in BOOLEAN : RenderRequested(raised)
    \/ LoopEnds
    \/ MainReturns

SpecOutputs == InitOutputs /\ [][NextOutputs]_vars

----------------------------------------------------------------------------
(* Claims about generate_outputs *)

\* generate_outputs returned to main without an exception.
Returned == pc = "returned" \/ (pc = "done" /\ exit_status = 0)

\* The branch for no formats or "default" has run to its end.
ExtensionBranchOver == DefaultBranch(args) /\ Returned

\* The loop over an explicit formats list has run to its end.
ExplicitBranchOver == ~DefaultBranch(args) /\ Returned

\* The registered plugins that declare the extension.
Declaring(extension) == {i \in DOMAIN plugins : Declares(plugins[i], extension)}

\* The paths at which a plugin wrote its artifact.
Artifacts == {invoked[i].path : i \in {j \in DOMAIN invoked : ~invoked[j].raised}}

\* The formats of the generate_output calls, in order.
InvokedFormats == [i \in DOMAIN invoked |-> invoked[i].format]

\* The name with its final suffix, if it has one, replaced by the extension.
ReplaceFinalSuffix(name, extension) ==
    LET i == RFindDot(name)
    IN IF 1 < i /\ i < Len(name) THEN SubSeq(name, 1, i - 1) \o extension
       ELSE name \o extension

\* C4: with no formats or 'default' and more than one registered plugin
\* declaring the suffix of the output path, no plugin is invoked and
\* generate_outputs fails; a plugin requested by its format name is the only
\* one invoked.
C4_AmbiguousExtensionFails ==
    /\ (pc \in {"returned", "done"} /\ DefaultBranch(args)
          /\ Cardinality(Declaring(Lower(Suffix(args.output_file)))) > 1)
         => (invoked = <<>> /\ ~Returned)
    /\ (ExplicitBranchOver /\ Len(requested_formats) = 1
          /\ Registered(plugins, requested_formats[1]))
         => InvokedFormats = requested_formats

\* C5: with no formats or 'default' and no registered plugin declaring the
\* suffix of the output path, generate_outputs does not return normally.
C5_NoPluginErrorReachesCaller ==
    (pc \in {"returned", "done"} /\ DefaultBranch(args)
       /\ Declaring(Lower(Suffix(args.output_file))) = {})
      => ~Returned

\* C6: the single format 'default' with an output path without extension makes
\* the default plugin write at the output path with '.txt' appended, and the
\* run exits with status 0.
C6_DefaultAppendsTxt ==
    (pc = "done" /\ FormatsArg(args) = <<"default">> /\ Suffix(args.output_file) = <<>>
       /\ Registered(plugins, <<"default">>)
       /\ exit_status = 0 /\ \A i \in DOMAIN invoked : ~invoked[i].raised)
      => (args.output_file \o <<".", "txt">>) \in Artifacts

C8_OnlyFinalSuffixReplaced ==
    ExplicitBranchOver =>
        \A i \in DOMAIN invoked :
            invoked[i].path =
                ReplaceFinalSuffix(args.output_file,
                    PluginFor(plugins, invoked[i].format).supported_extensions[1])

\* C9: no two distinct requested formats receive the same target path.
C9_TargetsNeverCollide ==
    ~DefaultBranch(args) =>
        \A i, j \in DOMAIN invoked :
            invoked[i].format # invoked[j].format => invoked[i].path # invoked[j].path

\* The positions of the requested formats that are registered, in order.
RECURSIVE RegisteredPositions(_)
RegisteredPositions(k) ==
    IF k > Len(requested_formats) THEN <<>>
    ELSE (IF Registered(plugins, requested_formats[k]) THEN <<k>> ELSE <<>>)
            \o RegisteredPositions(k + 1)

\* C10: when generate_output of a requested format raises, every later
\* requested registered format is still invoked, with a target path that
\* carries its own plugin's first extension.
C10_ErrorDoesNotAbortLoop ==
    (ExplicitBranchOver /\ \E i \in DOMAIN invoked : invoked[i].raised) =>
        LET positions == RegisteredPositions(1)
        IN /\ Len(invoked) = Len(positions)
           /\ \A i \in DOMAIN invoked :
                 /\ invoked[i].format = requested_formats[positions[i]]
                 /\ EndsWith(invoked[i].path,
                        PluginFor(plugins, invoked[i].format).supported_extensions[1])

\* C10: the first of two registered formats raised and the second was rendered.
C10_Witness ==
    /\ ExplicitBranchOver
    /\ Len(invoked) = 2
    /\ invoked[1].raised
    /\ ~invoked[2].raised
    /\ invoked[1].format # invoked[2].format

\* C11: in strict mode (ignore_errors false) the first error of a requested
\* format's generate_output ends the run: no later format is rendered and
\* generate_outputs does not return normally.
C11_StrictErrorAbortsRun ==
    (~DefaultBranch(args) /\ ~args.ignore_errors) =>
        \A i \in DOMAIN invoked :
            invoked[i].raised => (i = Len(invoked) /\ ~Returned)

----------------------------------------------------------------------------
(* One run of main() over a tree: gather_all_files, then the formats *)

\* The largest depth bound of a run.
MaxDepth == 2

\* The tree: root/A.PY, root/old.pyc, root/a/a.py, root/a/gone.txt,
\* root/a/b/img.bin and root/.git/config.
TreeFileSystem ==
    FileSystem @@
    [ f4 |-> [name |-> <<"old", ".", "pyc">>, parent |-> "root", bytes |-> Repeat(99, 4),
              modified |-> 4, readable |-> TRUE],
      cfg |-> [name |-> <<"config">>, parent |-> "git", bytes |-> Repeat(100, 2),
               modified |-> 5, readable |-> TRUE] ]

\* An input path: a directory, a file, or a path that does not exist.
InputDir(id) == [kind |-> "dir", id |-> id]
InputFile(id) == [kind |-> "file", id |-> id]
InputMissing == [kind |-> "missing", id |-> "none"]

PathsInputs ==
    { <<InputDir("root")>>, <<InputFile("f4")>>, <<InputMissing, InputDir("root")>>,
      <<InputDir("root"), InputFile("f3")>>, <<InputFile("gone"), InputDir("root")>> }

PExactA == Pat("exact", <<"a">>)
PBin == Pat("suffix", <<".", "bin">>)

GatherArgs ==
    { [BaseArguments EXCEPT !.ignore_errors = ie, !.depth = depth, !.paths = paths,
                            !.exclude_dirs = xd, !.exclude_files = xf,
                            !.include_files = if, !.extensions = ex,
                            !.formats = fmts, !.output_file = <<"out">>] :
        ie \in BOOLEAN, depth \in 0..MaxDepth, paths \in PathsInputs,
        xd \in {<<>>, <<PExactA>>},
        xf \in {<<>>, <<PBin>>},
        if \in {<<>>, <<PPy>>, <<PBad, PPy>>},
        ex \in {<<>>, << <<"py">> >>},
        fmts \in {<<>>, <<"json">>} }

InitGather ==
    /\ args \in GatherArgs
    /\ fs = TreeFileSystem
    /\ walk = NoWalk
    /\ FilterInit
    /\ AnalyzerInit
    /\ plugins = <<PluginDefault, PluginJson>>
    /\ pc = "main"
    /\ requested_formats = <<>>
    /\ invoked = <<>>
    /\ skipped = <<>>
    /\ exit_status = -1

NextGather ==
    \/ GatherBegins
    \/ GatherRoot
    \/ CollectEnters
    \/ CollectDirectory
    \/ CollectFile
    \/ GatherEnds
    \/ \E raised \in BOOLEAN : RenderByExtension(raised)
    \/ SplitFormats
    \/ \E raised \in BOOLEAN : RenderRequested(raised)
    \/ LoopEnds
    \/ MainReturns

SpecGather == InitGather /\ [][NextGather]_vars

----------------------------------------------------------------------------
(* Claims about gather_all_files, collect_files and the exit status *)

Range(seq) == {seq[i] : i \in DOMAIN seq}

\* gather_all_files has returned.
GatherCompleted == pc \in {"gathered", "loop", "returned"} \/ (pc = "done" /\ exit_status = 0)

\* The filter of the run admits the name, seen from a fresh process.
Admitted(name, is_dir) ==
    PathDecision(name, is_dir, args, ExtendedPatterns(InitialIgnorePatterns, is_dir, args))
        = "true"

\* The depth of a directory, the root being 0.
RECURSIVE DirDepth(_)
DirDepth(d) == IF Directories[d].parent = "none" THEN 0 ELSE 1 + DirDepth(Directories[d].parent)

\* Every directory from the one given up to, not including, the root is admitted.
RECURSIVE ChainAdmitted(_)
ChainAdmitted(d) ==
    \/ Directories[d].parent = "none"
    \/ Admitted(Directories[d].name, TRUE) /\ ChainAdmitted(Directories[d].parent)

C14_DepthOneStopsAboveFile ==
    /\ args.depth = 1 => "f3" \notin Range(walk.yielded)
    /\ ( /\ args.depth = 0
         /\ GatherCompleted
         /\ InputDir("root") \in Range(args.paths)
         /\ ChainAdmitted(fs["f3"].parent)
         /\ Admitted(fs["f3"].name, FALSE) )
       => "f3" \in Range(walk.yielded)

\* C14: a walk of root with depth bound 1 is over, nothing but the bound
\* keeping root/a/b/img.bin out.
C14_Witness ==
    /\ args.depth = 1
    /\ pc = "gathered"
    /\ args.paths = <<InputDir("root")>>
    /\ ChainAdmitted(fs["f3"].parent)
    /\ Admitted(fs["f3"].name, FALSE)
    /\ "f2" \in Range(walk.yielded)
    /\ "f3" \notin Range(walk.yielded)

\* C15: with depth bound N > 0 a directory is walked when its parent's depth
\* is below N, and a directory that is walked yields its own admitted files:
\* after the walk of root an admitted file under admitted directories has
\* been yielded exactly when its directory's depth is at most N.
C15_BoundLimitsDescentOnly ==
    (args.depth > 0 /\ GatherCompleted /\ InputDir("root") \in Range(args.paths)) =>
        \A f \in DOMAIN fs :
            (ChainAdmitted(fs[f].parent) /\ Admitted(fs[f].name, FALSE)) =>
                (f \in Range(walk.yielded) <=> DirDepth(fs[f].parent) <= args.depth)

C13_NoArtifactNonZeroStatus ==
    (pc = "done" /\ Artifacts = {}) => exit_status # 0

----------------------------------------------------------------------------
(* get_file_metadata on files of every content *)

\* The longest tail of a sample file.
MaxBytes == 3

\* The bytes a sample file is made of: NUL, "a", and a byte that is not ASCII.
SampleBytes == {0, 97, 200}

\* A sample file: nothing, SampleSize - 1 or SampleSize times "a", then a
\* short tail, so that a NUL byte lies at the start, at either side of the
\* end of the sample _is_binary reads, or nowhere.
SampleContents ==
    { Repeat(97, n) \o tail :
        n \in {0, SampleSize - 1, SampleSize}, tail \in SeqsUpTo(SampleBytes, MaxBytes) }

SampleFile(bytes) ==
    [name |-> <<"s", ".", "dat">>, parent |-> "root", bytes |-> bytes, modified |-> 1,
     readable |-> TRUE]

InitBinary ==
    /\ args \in {[BaseArguments EXCEPT !.force_binary_content = force] : force \in BOOLEAN}
    /\ fs \in {[s |-> SampleFile(bytes)] : bytes \in SampleContents}
    /\ walk = NoWalk
    /\ FilterInit
    /\ AnalyzerInit
    /\ OutputInit

NextBinary == \E spelling \in {"abs", "rel"} : AnalyzeFile(<<"s", spelling>>)

SpecBinary == InitBinary /\ [][NextBinary]_vars

\* The position of the first NUL byte, 0 when there is none.
FirstNul(bytes) ==
    LET nuls == {i \in DOMAIN bytes : bytes[i] = 0}
    IN IF nuls = {} THEN 0 ELSE CHOOSE i \in nuls : \A j \in nuls : i <= j

\* base64 decoding: every four characters give three bytes, less one for each
\* "=" at the end. Byte j of the result.
b64decode(chars) ==
    LET pads == Cardinality({i \in DOMAIN chars : chars[i] = 64})
    IN [j \in 1..(3 * (Len(chars) \div 4) - pads) |->
           LET g == (j - 1) \div 3
               val(k) == IF chars[4 * g + k] = 64 THEN 0 ELSE chars[4 * g + k]
               n == val(1) * 262144 + val(2) * 4096 + val(3) * 64 + val(4)
           IN CASE (j - 1) % 3 = 0 -> n \div 65536
                [] (j - 1) % 3 = 1 -> (n \div 256) % 256
                [] OTHER -> n % 256]

\* C17: the record of a file with a NUL byte among its first 1024 bytes has
\* is_binary true and, without force_binary_content, the fixed placeholder as
\* content, with it a content that base64-decodes to the bytes of the file; a
\* file without a NUL byte there is classified as text.
C17_BinaryByFirstKilobyte ==
    (call.outcome = "return" /\ call.ret # EmptyRecord) =>
        LET bytes == fs[call.path[1]].bytes
            record == call.ret
        IN IF FirstNul(bytes) \in 1..1024
           THEN /\ record.is_binary
                /\ IF args.force_binary_content
                   THEN /\ record.content[1] = "base64"
                        /\ b64decode(record.content[2]) = bytes
                   ELSE record.content = <<"literal", "**binary data found: skipped**">>
           ELSE /\ ~record.is_binary
                /\ record.content[1] = "text"

\* C17: a file whose only NUL byte is its 1025th was analysed and is text, in
\* a run with force_binary_content.
C17_Witness ==
    /\ call.outcome = "return"
    /\ call.ret # EmptyRecord
    /\ FirstNul(fs[call.path[1]].bytes) = 1025
    /\ ~call.ret.is_binary
    /\ args.force_binary_content

----------------------------------------------------------------------------
(* _update_stats over more files than the top lists hold *)

\* The files of the run, one more than a top list holds.
MaxStatFiles == 11

\* Files 1, 2, ... of sizes 1, 2, ..., the eleventh as large as the tenth,
\* each older than the one before, the second as old as the first.
StatFile(i) ==
    [name |-> <<ToString(i), ".", "txt">>, parent |-> "root",
     bytes |-> Repeat(97, IF i = 11 THEN 10 ELSE i),
     modified |-> IF i = 1 THEN 10 ELSE 12 - i, readable |-> TRUE]

InitStats ==
    /\ args = BaseArguments
    /\ fs = [i \in 1..MaxStatFiles |-> StatFile(i)]
    /\ walk = NoWalk
    /\ FilterInit
    /\ AnalyzerInit
    /\ OutputInit

\* analyze_file on the files of the run, in any order.
AnalyzeAny(f) ==
    /\ analyze_file(<<f, "abs">>)
    /\ UNCHANGED <<args, filterVars, gatherVars, outputVars>>

NextStats == \E f \in 1..MaxStatFiles : AnalyzeAny(f)

SpecStats == InitStats /\ [][NextStats]_vars

\* The files whose metadata was read, each once in a run of SpecStats.
Analysed == {f \in DOMAIN fs : meta_calls[f] > 0}

\* The list holds the top entries of the analysed files under the key: as
\* many as there are, at most 10, in descending order of the key, each a file
\* analysed with its key, no file twice, and no analysed file left out whose
\* key is larger than the smallest key listed.
TopTen(list, key(_)) ==
    /\ Len(list) = (IF Cardinality(Analysed) < 10 THEN Cardinality(Analysed) ELSE 10)
    /\ \A i, j \in DOMAIN list : i < j => list[i][2] >= list[j][2]
    /\ \A i, j \in DOMAIN list : i # j => list[i][1] # list[j][1]
    /\ \A i \in DOMAIN list :
          /\ list[i][1][1] \in Analysed
          /\ list[i][2] = key(list[i][1][1])
    /\ \A f \in Analysed :
          \/ \E i \in DOMAIN list : list[i][1][1] = f
          \/ \A i \in DOMAIN list : key(f) <= list[i][2]

----------------------------------------------------------------------------
(* The effective field set, seen through the records analyze_file caches *)

\* The fields of a record that the metadata configuration governs and a
\* record of a file can carry: the built-in ones get_file_metadata sets, the
\* field of the md5 plugin, and "type".
GovernedFields == {"size", "modified", "extension", "md5", "type"}

----------------------------------------------------------------------------
(* Claims about the metadata plugins *)

\* The effective field set of the run, from its arguments.
EffectiveFields ==
    ({"filepath", "size", "modified", "extension"} \ args.metadata_remove)
        \cup args.metadata_add

\* The last call of analyze_file built a record and cached it.
RecordBuilt == call.outcome = "return" /\ ~call.cached /\ call.ret # EmptyRecord

----------------------------------------------------------------------------
(* Claims about malformed patterns and the shared pattern lists *)

\* C22: a malformed regular expression in exclude_dirs, exclude_files,
\* include_dirs or include_files never makes should_include_path raise, nor
\* collect_files: the walk is never left through an error of the filter.
C22_MalformedPatternNeverRaises ==
    /\ sip.result # "raise"
    /\ (pc = "raised" /\ sip.result # "none") => call.outcome = "raise"

----------------------------------------------------------------------------
(* Claims about the cache key *)

\* C23: the cache key of a file is its resolved absolute path: however the
\* path of a file is spelled in the calls of analyze_file, the cache holds at
\* most one entry for the file, under the resolved path, and the metadata of
\* a readable file is read, and the statistics updated, at most once.
C23_KeyIsResolvedPath ==
    /\ \A p \in DOMAIN file_info_cache : p = Resolve(p)
    /\ \A f \in DOMAIN fs :
          /\ Cardinality({p \in DOMAIN file_info_cache : p[1] = f}) <= 1
          /\ (<<f, "abs">> \in DOMAIN file_info_cache \/ <<f, "rel">> \in DOMAIN file_info_cache)
                => meta_calls[f] = 1

----------------------------------------------------------------------------
(* The output plugins: generate_output walks the input paths itself *)

\* The plugin generate_outputs is about to call, or is calling, and the path
\* it hands to it: in the branch for no formats the first plugin declaring the
\* suffix of output_file, in the loop the plugin of the format at hand.
JobPlugin ==
    IF DefaultBranch(args)
    THEN plugins[FirstDeclaring(plugins, Lower(Suffix(args.output_file)))]
    ELSE PluginFor(plugins, requested_formats[LoopIndex])

JobPath ==
    IF DefaultBranch(args) THEN args.output_file
    ELSE TargetPath(args.output_file, JobPlugin)

\* generate_outputs has a plugin to call.
JobReady ==
    \/ /\ pc = "gathered"
       /\ DefaultBranch(args)
       /\ FirstDeclaring(plugins, Lower(Suffix(args.output_file))) # 0
    \/ /\ pc = "loop"
       /\ LoopContinues
       /\ Registered(plugins, requested_formats[LoopIndex])

\* Where generate_outputs goes on after a plugin call.
AfterJob == IF DefaultBranch(args) THEN "returned" ELSE "loop"

\* DefaultOutputPlugin opens its file before it walks, JSONOutputPlugin after.
OpensFirst(plugin) == plugin.format_name = <<"default">>

\* The file a plugin writes, as a file on disk.
ArtifactId(plugin) == IF OpensFirst(plugin) THEN "out_txt" ELSE "out_json"

\* open(out_file, "w"): the file is there and empty, if the walk can see it at
\* all. What is written stays in the buffer of the handle while the plugin runs.
Opened(files, plugin, path, a) ==
    IF a.output_dir \in DOMAIN Directories
    THEN Put(files, ArtifactId(plugin),
             [name |-> path, parent |-> a.output_dir, bytes |-> <<>>, modified |-> 9,
              readable |-> TRUE])
    ELSE files

\* The file after json.dump and close: the text is not modelled beyond its
\* braces.
Written(files, plugin, path, a) ==
    IF a.output_dir \in DOMAIN Directories
    THEN Put(files, ArtifactId(plugin),
             [name |-> path, parent |-> a.output_dir, bytes |-> <<123, 125>>,
              modified |-> 9, readable |-> TRUE])
    ELSE files

\* get_file_metadata has not run yet on a file that was just created.
Counting(files) == [f \in DOMAIN files |-> IF f \in DOMAIN meta_calls THEN meta_calls[f] ELSE 0]

\* What should_include_path returns now for the name.
Decides(name, is_dir) ==
    PathDecision(name, is_dir, args, ExtendedPatterns(DEFAULT_IGNORE_PATTERNS, is_dir, args))

\* DefaultOutputPlugin._write_folder_structure(d): the should_include_path
\* calls it makes, in order, were none of them to raise: every subdirectory,
\* the admitted ones descended into at once, then every file.
RECURSIVE StructureDirs(_, _), StructureCalls(_)
StructureDirs(entries, i) ==
    IF i > Len(entries) THEN <<>>
    ELSE (IF entries[i].kind # "dir" THEN <<>>
          ELSE <<[name |-> EntryName(entries[i]), is_dir |-> TRUE]>>
                 \o (IF Decides(EntryName(entries[i]), TRUE) = "true"
                     THEN StructureCalls(entries[i].id) ELSE <<>>))
         \o StructureDirs(entries, i + 1)

StructureCalls(d) ==
    LET entries == Sorted(IterDir(d))
        files == SelectSeq(entries, LAMBDA e : e.kind = "file")
    IN StructureDirs(entries, 1)
         \o [i \in DOMAIN files |-> [name |-> EntryName(files[i]), is_dir |-> FALSE]]

\* The calls made until one raises, that one included.
UpToRaise(calls) ==
    LET raising == {i \in DOMAIN calls : Decides(calls[i].name, calls[i].is_dir) = "raise"}
    IN IF raising = {} THEN calls
       ELSE SubSeq(calls, 1, CHOOSE i \in raising : \A j \in raising : i <= j)

\* n copies of a list, one after the other.
RECURSIVE Copies(_, _)
Copies(list, n) == IF n = 0 THEN <<>> ELSE list \o Copies(list, n - 1)

\* _write_folder_structure(d), the whole call, as the filter sees it: every
\* should_include_path call extends the shared list of its category.
write_folder_structure(d) ==
    LET calls == UpToRaise(StructureCalls(d))
        ndirs == Cardinality({i \in DOMAIN calls : calls[i].is_dir})
        last == calls[Len(calls)]
    IN /\ DEFAULT_IGNORE_PATTERNS' =
              [directories |-> DEFAULT_IGNORE_PATTERNS.directories
                                 \o Copies(args.exclude_dirs, ndirs),
               files |-> DEFAULT_IGNORE_PATTERNS.files
                                 \o Copies(args.exclude_files, Len(calls) - ndirs)]
       /\ sip' = IF calls = <<>> THEN sip
                 ELSE [name |-> last.name, is_dir |-> last.is_dir,
                       result |-> Decides(last.name, last.is_dir)]

\* generate_outputs finds no plugin: in the branch for no formats the
\* ValueError is logged and the method returns, in the loop the name is
\* logged and skipped.
PluginMissing ==
    /\ ~JobReady
    /\ \/ /\ pc = "gathered"
          /\ DefaultBranch(args)
          /\ pc' = "returned"
          /\ UNCHANGED skipped
       \/ /\ pc = "loop"
          /\ LoopContinues
          /\ skipped' = Append(skipped, requested_formats[LoopIndex])
          /\ UNCHANGED pc
    /\ UNCHANGED <<args, plugins, requested_formats, invoked, exit_status, filterVars,
                   analyzerVars, gatherVars>>

\* plugin_inst.generate_output(path) begins.
PluginStarts ==
    /\ JobReady
    /\ pc' = "render"
    /\ walk' = [root |-> 1, frames |-> <<>>, yielded |-> <<>>]
    /\ fs' = IF OpensFirst(JobPlugin) THEN Opened(fs, JobPlugin, JobPath, args) ELSE fs
    /\ meta_calls' = Counting(fs')
    /\ UNCHANGED <<args, file_info_cache, stats, call, plugins, requested_formats, invoked,
                   skipped, exit_status, filterVars>>

\* The plugin's loop over args.paths, one path. DefaultOutputPlugin writes the
\* structure of a directory, then collects and analyses its files, and
\* analyses a path that is a file; JSONOutputPlugin hands every path to
\* collect_files, which yields a file as it is and fails on a missing path.
PluginRoot ==
    /\ pc = "render"
    /\ walk.frames = <<>>
    /\ walk.root <= Len(args.paths)
    /\ LET p_obj == args.paths[walk.root]
           onward == [walk EXCEPT !.root = @ + 1]
       IN CASE p_obj.kind = "file" ->
                 /\ analyze_file(<<p_obj.id, "abs">>)
                 /\ pc' = IF call'.outcome = "raise" THEN Escaped ELSE pc
                 /\ walk' = onward
                 /\ UNCHANGED filterVars
            [] p_obj.kind = "dir" ->
                 /\ IF OpensFirst(JobPlugin)
                    THEN write_folder_structure(p_obj.id)
                    ELSE UNCHANGED filterVars
                 /\ IF sip'.result = "raise" /\ OpensFirst(JobPlugin)
                    THEN walk' = onward /\ pc' = Escaped
                    ELSE walk' = [onward EXCEPT !.frames = <<Frame(p_obj.id, 0)>>]
                           /\ UNCHANGED pc
                 /\ UNCHANGED analyzerVars
            [] OTHER ->
                 /\ walk' = onward
                 /\ pc' = IF ~OpensFirst(JobPlugin) /\ ~args.ignore_errors
                          THEN Escaped ELSE pc
                 /\ UNCHANGED <<filterVars, analyzerVars>>
    /\ UNCHANGED <<args, fs, plugins, requested_formats, invoked, skipped, exit_status>>

\* JSONOutputPlugin._build_file_entry reads "size" and "modified" of every
\* cached record.
EntryRaises(plugin) ==
    /\ ~OpensFirst(plugin)
    /\ \E p \in DOMAIN file_info_cache :
          {"size", "modified"} \ DOMAIN file_info_cache[p] # {}

\* Every path is done: the plugin writes what is left to write and returns,
\* or fails over a record it cannot render.
PluginEnds ==
    /\ pc = "render"
    /\ walk.frames = <<>>
    /\ walk.root > Len(args.paths)
    /\ invoked' = Append(invoked, Invocation(JobPlugin.format_name, JobPath,
                                             EntryRaises(JobPlugin)))
    /\ fs' = IF OpensFirst(JobPlugin) \/ EntryRaises(JobPlugin) THEN fs
             ELSE Written(fs, JobPlugin, JobPath, args)
    /\ meta_calls' = Counting(fs')
    /\ pc' = AfterJob
    /\ UNCHANGED <<args, walk, file_info_cache, stats, call, plugins, requested_formats,
                   skipped, exit_status, filterVars>>

\* An exception left the plugin: generate_outputs logs it and goes on.
PluginRaises ==
    /\ pc = "plugin_raised"
    /\ invoked' = Append(invoked, Invocation(JobPlugin.format_name, JobPath, TRUE))
    /\ walk' = [walk EXCEPT !.frames = <<>>]
    /\ pc' = AfterJob
    /\ UNCHANGED <<args, fs, plugins, requested_formats, skipped, exit_status, filterVars,
                   analyzerVars>>

----------------------------------------------------------------------------
(* A whole run: gather_all_files, then every requested plugin *)

RenderArgs ==
    { [BaseArguments EXCEPT !.ignore_errors = ie, !.paths = paths, !.metadata_add = add,
                            !.extensions = ex, !.formats = fmts,
                            !.output_file = out, !.output_dir = dir] :
        ie \in BOOLEAN,
        paths \in { <<InputDir("root")>>, <<InputDir("a"), InputFile("f2")>>,
                    <<InputMissing, InputDir("a")>> },
        add \in {{}, {"filesize_human_readable"}},
        ex \in {<<>>, << <<"py">> >>},
        fmts \in { <<>>, <<"json">>, <<"default", ",", "json">>, <<"json", ",", "default">>,
                   <<"json", ",", "nope">> },
        out \in { <<"out">>, <<"out", ".", "txt">> },
        dir \in {"cwd", "root", "a"} }

InitRender ==
    /\ args \in RenderArgs
    /\ fs = TreeFileSystem
    /\ walk = NoWalk
    /\ FilterInit
    /\ AnalyzerInit
    /\ plugins = <<PluginDefault, PluginJson>>
    /\ pc = "main"
    /\ requested_formats = <<>>
    /\ invoked = <<>>
    /\ skipped = <<>>
    /\ exit_status = -1

NextRender ==
    \/ GatherBegins
    \/ GatherRoot
    \/ CollectEnters
    \/ CollectDirectory
    \/ CollectFile
    \/ GatherEnds
    \/ SplitFormats
    \/ PluginMissing
    \/ PluginStarts
    \/ PluginRoot
    \/ PluginEnds
    \/ PluginRaises
    \/ LoopEnds
    \/ MainReturns

SpecRender == InitRender /\ [][NextRender]_vars

\* C24: output plugins are read-only consumers: once gather_all_files has
\* returned, no step of a plugin, whatever the formats, their order and the
\* place of the output path, adds a cache entry or changes a statistic.
C24_PluginsReadOnly ==
    [][ (pc \in {"gathered", "loop", "render", "plugin_raised"}) =>
            /\ file_info_cache' = file_info_cache
            /\ stats' = stats ]_vars

\* C25: no call of should_include_path changes the shared built-in deny
\* lists: DEFAULT_IGNORE_PATTERNS always holds its initial patterns, and what
\* an analyzer is answered is what a fresh process would answer it, whatever
\* the exclude lists of the analyzers before it.
C25_SharedListsNeverChange ==
    /\ DEFAULT_IGNORE_PATTERNS = InitialIgnorePatterns
    /\ sip.result # "none" =>
          sip.result = PathDecision(sip.name, sip.is_dir, args,
                          ExtendedPatterns(InitialIgnorePatterns, sip.is_dir, args))

----------------------------------------------------------------------------
(* collect_files over a tree with sibling directories *)

\* Files in root, in its subdirectories a and c, and in a/b.
OrderFileSystem ==
    LET file(name, parent) ==
            [name |-> name, parent |-> parent, bytes |-> Repeat(97, 1), modified |-> 1,
             readable |-> TRUE]
    IN [ o1 |-> file(<<"a", ".", "py">>, "root"),
         o2 |-> file(<<"A", ".", "PY">>, "root"),
         o3 |-> file(<<"img", ".", "bin">>, "a"),
         o4 |-> file(<<"config">>, "a"),
         o5 |-> file(<<"a", ".", "py">>, "b"),
         o6 |-> file(<<"out", ".", "txt">>, "c"),
         o7 |-> file(<<"A", ".", "PY">>, "c") ]

OrderArgs ==
    { [BaseArguments EXCEPT !.ignore_errors = ie, !.depth = depth,
                            !.paths = <<InputDir("root")>>,
                            !.exclude_dirs = xd, !.exclude_files = xf,
                            !.include_files = if] :
        ie \in BOOLEAN, depth \in 0..MaxDepth,
        xd \in {<<>>, <<PExactA>>},
        xf \in {<<>>, <<PBin>>},
        if \in {<<>>, <<PBad, PPy>>} }

InitOrder ==
    /\ args \in OrderArgs
    /\ fs = OrderFileSystem
    /\ walk = NoWalk
    /\ FilterInit
    /\ AnalyzerInit
    /\ plugins = <<PluginDefault, PluginJson>>
    /\ pc = "main"
    /\ requested_formats = <<>>
    /\ invoked = <<>>
    /\ skipped = <<>>
    /\ exit_status = -1

NextOrder ==
    \/ GatherBegins
    \/ GatherRoot
    \/ CollectEnters
    \/ CollectDirectory
    \/ CollectFile
    \/ GatherEnds

SpecOrder == InitOrder /\ [][NextOrder]_vars

\* The place of a name in the order of the code points, written out again.
Alphabetical(name) ==
    CHOOSE i \in 1..11 :
        << <<".", "git">>, <<"A", ".", "PY">>, <<"a">>, <<"a", ".", "py">>, <<"b">>,
           <<"c">>, <<"config">>, <<"gone", ".", "txt">>, <<"img", ".", "bin">>,
           <<"old", ".", "pyc">>, <<"out", ".", "txt">> >>[i] = name

\* The directories from the root down to d.
RECURSIVE DirPath(_)
DirPath(d) ==
    IF Directories[d].parent = "none" THEN <<d>>
    ELSE Append(DirPath(Directories[d].parent), d)

\* File f may be yielded before file g: below the last directory they share,
\* either f lies in a subdirectory and g does not, or both lie in
\* subdirectories and that of f has the smaller name, or both are direct
\* children and f has the smaller name.
MayPrecede(f, g) ==
    LET p == DirPath(fs[f].parent)
        q == DirPath(fs[g].parent)
        shared == {k \in DOMAIN p \cap DOMAIN q : \A j \in 1..k : p[j] = q[j]}
        n == Cardinality(shared)
    IN CASE Len(p) = n /\ Len(q) = n -> Alphabetical(fs[f].name) < Alphabetical(fs[g].name)
         [] Len(p) > n /\ Len(q) = n -> TRUE
         [] Len(p) = n /\ Len(q) > n -> FALSE
         [] OTHER -> Alphabetical(Directories[p[n + 1]].name)
                       < Alphabetical(Directories[q[n + 1]].name)

\* C26: in the sequence collect_files yields for a directory, at every level
\* the files of the admitted subdirectories come before the direct children,
\* the subdirectories are taken in ascending order of their names and the
\* direct children come in ascending order of their names.
C26_SubdirectoriesFirstSorted ==
    \A i, j \in DOMAIN walk.yielded :
        i < j => MayPrecede(walk.yielded[i], walk.yielded[j])

\* C26: the whole tree was walked: a/b/a.py, a/config, a/img.bin, c/A.PY,
\* c/out.txt, A.PY, a.py.
C26_Witness ==
    /\ pc = "gathered"
    /\ walk.yielded = <<"o5", "o4", "o3", "o7", "o6", "o2", "o1">>

----------------------------------------------------------------------------
(* The top lists and the order of analysis *)

\* The statistics after the files 1..n were analysed in the order of their
\* numbers.
RECURSIVE InNumberOrder(_)
InNumberOrder(n) ==
    IF n = 0 THEN EmptyStats
    ELSE update_stats(InNumberOrder(n - 1), get_file_metadata(<<n, "abs">>, args))

----------------------------------------------------------------------------
(* The extension of a file *)

\* C28: the extension of every record, every key of the extension histogram
\* and the extension that should_include_path compares with the extension
\* lists is the suffix of the file name in lower case without its dot: A.PY
\* and a.py share the bucket "py" and extensions = ["py"] admits both.
C28_ExtensionLowercased ==
    /\ \A p \in DOMAIN file_info_cache :
          "extension" \in DOMAIN file_info_cache[p] =>
              file_info_cache[p].extension = Lower(ExtStr(fs[p[1]].name))
    /\ \A e \in stats.extensions : e[1] = Lower(e[1])
    /\ ( /\ sip.result \in {"true", "false"}
         /\ ~sip.is_dir
         /\ args.extensions = << <<"py">> >>
         /\ Lower(ExtStr(sip.name)) = <<"py">>
         /\ ~MatchesBuiltin(sip.name, FALSE)
         /\ ~MatchesSome(args.exclude_files, sip.name)
         /\ args.include_files = <<>> )
       => sip.result = "true"

----------------------------------------------------------------------------
(* The statistics and the cache *)

\* The sum of the values of a function with a finite domain.
RECURSIVE SumOf(_)
SumOf(f) ==
    IF DOMAIN f = {} THEN 0
    ELSE LET x == CHOOSE x \in DOMAIN f : TRUE
         IN f[x] + SumOf([y \in DOMAIN f \ {x} |-> f[y]])

\* C29: in every reachable state total_files is the number of cache entries,
\* total_size the sum of their sizes, and the counts of the extension
\* histogram add up to total_files, also when the analysis of a file fails
\* after its metadata was read, and when a later collection pass analyses
\* such a file again.
C29_StatsMatchCache ==
    /\ stats.total_files = Cardinality(DOMAIN file_info_cache)
    /\ stats.total_size = SumOf([p \in DOMAIN file_info_cache |-> file_info_cache[p].size])
    /\ SumOf([e \in stats.extensions |-> e[2]]) = stats.total_files

----------------------------------------------------------------------------
(* What gather_all_files leaves in the cache *)

\* The file is an input path itself.
IsFileRoot(f) == InputFile(f) \in Range(args.paths)

\* The file lies under the input directory root, the filter admits it and
\* every directory between root and the file, and the depth bound is
\* respected: with a bound N > 0 no directory from root down to the file's
\* lies at depth N or deeper.
Collectable(f) ==
    /\ InputDir("root") \in Range(args.paths)
    /\ Admitted(fs[f].name, FALSE)
    /\ ChainAdmitted(fs[f].parent)
    /\ args.depth > 0 =>
          \A d \in Range(DirPath(fs[f].parent)) : DirDepth(d) < args.depth

====
